---- MODULE Spec2Model ----
(***************************************************************************)
(* The client side of the oil pipeline anomaly detection dashboard: the    *)
(* useAnalysis hook (src/hooks/use-analysis.ts), the ApiClient it calls    *)
(* (src/lib/api.ts) and the two components that each own one instance of   *)
(* the hook (the page-level OilPipelineAnomalyDetection and the            *)
(* AnomalyDetector tab, both taken as mounted).  The analysis server       *)
(* (scripts/api_server.py, started by src/start_server.sh) is              *)
(* not part of the sources at hand; its run state machine is taken from    *)
(* the orchestrator section of the specification.                          *)
(*                                                                         *)
(* Next to the hook, the module models the AnomalyDetector's step display  *)
(* (getDetectionSteps), the ModelConfiguration form with its Reset and     *)
(* Save buttons, the result cards that show the recall, and the            *)
(* DataGenerator tab with its Generate and Download buttons.  The stages   *)
(* of the server's pipeline are, like the server, taken from the           *)
(* specification.                                                          *)
(***************************************************************************)
EXTENDS Integers, Sequences, FiniteSets, Bags, TLC

\* ------------------------------------------------------------------ bounds
\* Number of events in one behaviour: Run clicks (startAnalysis), interval
\* ticks and transport failures together.  Every outstanding call stems from
\* a Run click or a tick, so this bounds them too.
MaxEvents == 3
\* Number of Reset clicks (resetAnalysis) in one behaviour.
MaxResets == 1
\* Number of pipeline stages a run of the server goes through.
MaxStages == 2
\* Number of edits of the ModelConfiguration form in one behaviour.
MaxEdits == 1
\* Number of windows of the series a pipeline run classifies.
MaxWindows == 3
\* Number of Run clicks where the timer's ticks are not counted.
MaxRuns == 1
\* Number of clicks on the DataGenerator's Generate and Download buttons.
MaxClicks == 2

\* --------------------------------------------------------------- constants
\* The five pipeline steps the client knows.
NumSteps == 5

StepNames ==
    << "Data Preprocessing", "One-Class SVM Training", "Anomaly Detection",
       "Hierarchical Clustering", "Multi-source Analysis" >>

\* The two useAnalysis instances.
Hooks == {"page", "detector"}

\* useState<string | null>: the null of the error field.
Null == "null"

\* The fallback messages of the hook.
AnalysisFailed == "Analysis failed"
FailedToStart == "Failed to start analysis"

\* Messages the server sends.
AlreadyRunning == "Analysis already running"
StageFailure == "Stage failed"

\* ----------------------------------------------------------- status bodies
\* An AnalysisStatus body.  results = 0 and error = "" stand for an absent
\* optional field; run tags the body with the server run it describes.
StatusBody(st, pr, step, res, err, run) ==
    [status |-> st, progress |-> pr, current_step |-> step,
     results |-> res, error |-> err, run |-> run]

\* The state the hook is constructed with, and resetAnalysis restores.
IdleStatus == StatusBody("idle", 0, "", 0, "", 0)

\* Progress the server reports while stage k is being worked on.
StepProgress(k) == ((k - 1) * 100) \div MaxStages

\* ------------------------------------------------------------ HTTP outcome
\* What ApiClient.request can end with.  kind "ok": response.ok, body parsed;
\* "http": a non-OK response whose JSON body carries err (possibly absent);
\* "nojson": a non-OK response whose body is no JSON; "net": fetch rejected.
OkResponse(body) == [kind |-> "ok", body |-> body, err |-> "", code |-> 200]
HttpError(code, err) == [kind |-> "http", body |-> IdleStatus, err |-> err, code |-> code]
NoJsonError(code) == [kind |-> "nojson", body |-> IdleStatus, err |-> "", code |-> code]
NetFailure == [kind |-> "net", body |-> IdleStatus, err |-> "", code |-> 0]
NoResponse == [kind |-> "none", body |-> IdleStatus, err |-> "", code |-> 0]

HttpText(code) == IF code = 400 THEN "HTTP 400" ELSE "HTTP 500"

\* A request that reports every non-OK response by its status code alone.
RequestErrorMessage_StatusOnly(resp) ==
    CASE resp.kind = "http" -> HttpText(resp.code)
      [] resp.kind = "nojson" -> HttpText(resp.code)
      [] resp.kind = "net" -> "Failed to fetch"

\* The message of the Error that request throws: the body's error, else the
\* status code; "Network error" for a body that is no JSON; fetch's own
\* message when fetch rejects.
RequestErrorMessage(resp) ==
    CASE resp.kind = "http" -> IF resp.err # "" THEN resp.err ELSE HttpText(resp.code)
      [] resp.kind = "nojson" -> "Network error"
      [] resp.kind = "net" -> "Failed to fetch"

\* What the catch block of startAnalysis stores: the message of an Error,
\* the fallback for any other thrown value.  request throws Errors only.
CatchMessage(resp) ==
    IF resp.kind \in {"http", "nojson", "net"}
    THEN RequestErrorMessage(resp)
    ELSE FailedToStart

\* Transport failures that can hit any request, whatever the server state.
TransportFailures == {HttpError(500, ""), NoJsonError(500), NetFailure}

\* ------------------------------------------------------ ModelConfiguration
\* The form keeps its decimal values as JavaScript numbers; here nu, the
\* variance threshold and the correlation threshold are counted in
\* hundredths (0.05 is 5) and the convergence accuracy in ten-thousandths
\* (0.001 is 10).
\* The four useState initial values.
InitialForm ==
    [ocsvmConfig |->
        [kernel |-> "rbf", nu |-> 5, gamma |-> "auto",
         convergenceAccuracy |-> 10, maxIterations |-> 1000],
     clusteringConfig |->
        [numClusters |-> 10, linkage |-> "ward",
         distanceMetric |-> "euclidean", leafNodes |-> 3],
     preprocessingConfig |->
        [windowSize |-> 400, samplingRate |-> 2, normalization |-> TRUE,
         outlierRemoval |-> TRUE, interpolationMethod |-> "linear"],
     multisourceConfig |->
        [enableFrequencyAnalysis |-> TRUE, varianceThreshold |-> 10,
         correlationThreshold |-> 70, timeAlignment |-> TRUE]]

\* ------------------------------------------------------------ the pipeline
\* The server's pipeline before any run: no window flagged, no verdict.
\* recall is << >> where it is undefined (N/A), else << percent >>.
NoRun ==
    [stage |-> "none", leaks |-> {}, flagged |-> {}, verdict |-> << >>,
     recall |-> << >>]

\* ----------------------------------------------------------- DataGenerator
\* The config useState of the DataGenerator.
InitialGenConfig ==
    [duration |-> 24, samplingRate |-> 2, numPipelines |-> 19,
     leakEvents |-> 12, operationalEvents |-> 150]

\* The DataGenerator as constructed: data [] (0; a generated data set is
\* named by the number of the call that fetched it), not generating, no
\* error.  mounted tells whether the mount effect has run, requests are the
\* requests in flight, calls counts the generatePipelineData calls and
\* clicks the button clicks.
InitialGen ==
    [data |-> 0, isGenerating |-> FALSE, error |-> Null,
     config |-> InitialGenConfig, mounted |-> FALSE, requests |-> << >>,
     calls |-> 0, clicks |-> 0]

VARIABLES
    srv,        \* the server's current run: an AnalysisStatus body
    status,     \* status[h]: the hook's status state
    results,    \* results[h]: the hook's results state (0 is null)
    error,      \* error[h]: the hook's error state
    intervals,  \* intervals[h]: the active setInterval timers of the hook
    calls,      \* calls[h]: the bag of outstanding asynchronous calls of the hook
    used,       \* the events so far, the failures among them, and the resets
    hist,       \* hist[h]: what the user last did with the hook, and the
                \* results it held when startAnalysis was called (history)
    last,       \* the operation that produced this state
    sent,       \* sent[h]: the config of the hook's last start request
    form,       \* ModelConfiguration: its four configuration groups
    saved,      \* localStorage "pipelineAnomalyConfig": << >> or << item >>
    steps,      \* AnomalyDetector: the detectionSteps it last rendered
    pipe,       \* the candidates of the server's pipeline run
    gen         \* DataGenerator: its state and its requests in flight

vars ==
    << srv, status, results, error, intervals, calls, used, hist, last,
       sent, form, saved, steps, pipe, gen >>

\* An outstanding call: where it stands, the interval it belongs to (0 for a
\* start request) and the response it has received.
Call(pc, iv, resp) == [pc |-> pc, iv |-> iv, resp |-> resp]

Outstanding(h) == BagToSet(calls[h])

Op(name, h, from) == [op |-> name, hook |-> h, from |-> from]

\* A step of the server or of the network.
Env == Op("env", "page", "")

\* ------------------------------------------------------------------- Init
\* The state after construction, the hooks holding the statuses shown.
Begin(shown) ==
    /\ srv = IdleStatus
    /\ status = shown
    /\ results = [h \in Hooks |-> 0]
    /\ error = [h \in Hooks |-> Null]
    /\ intervals = [h \in Hooks |-> {}]
    /\ calls = [h \in Hooks |-> EmptyBag]
    /\ used = [events |-> 0, failures |-> 0, resets |-> 0, edits |-> 0]
    /\ hist = [h \in Hooks |-> [sinceReset |-> FALSE, accepted |-> 0, before |-> 0]]
    /\ last = Op("init", "page", "")
    /\ sent = [h \in Hooks |-> << >>]
    /\ form = InitialForm
    /\ saved = << >>
    /\ steps = << >>
    /\ pipe = NoRun
    /\ gen = InitialGen

Init == Begin([h \in Hooks |-> IdleStatus])

\* ------------------------------------------------------------ the server
\* POST /start-analysis as the orchestrator handles it: a start while a run
\* is running is rejected, any other start begins a fresh run.
ServerStart ==
    IF srv.status = "running"
    THEN [srv |-> srv, resp |-> HttpError(400, AlreadyRunning)]
    ELSE LET fresh == StatusBody("running", 0, StepNames[1], 0, "", srv.run + 1)
         IN  [srv |-> fresh, resp |-> OkResponse(fresh)]

\* GET /analysis-status: the current run as it is now.
ServerStatus == OkResponse(srv)

StepIndex(name) == CHOOSE k \in 1 .. NumSteps : StepNames[k] = name

\* A stage completes and the next one begins.
ServerAdvance ==
    /\ srv.status = "running"
    /\ StepIndex(srv.current_step) < MaxStages
    /\ LET k == StepIndex(srv.current_step) + 1
       IN  srv' = [srv EXCEPT !.current_step = StepNames[k],
                              !.progress = StepProgress(k)]
    /\ last' = Env
    /\ UNCHANGED << status, results, error, intervals, calls, used, hist >>

\* The last stage completes: the run is completed and exposes its results.
ServerComplete ==
    /\ srv.status = "running"
    /\ StepIndex(srv.current_step) = MaxStages
    /\ srv' = [srv EXCEPT !.status = "completed", !.progress = 100,
                          !.results = srv.run]
    /\ last' = Env
    /\ UNCHANGED << status, results, error, intervals, calls, used, hist >>

\* A stage fails: the run ends in error, with a message where the stage
\* gave one.
ServerFail ==
    /\ srv.status = "running"
    /\ \E msg \in {StageFailure, ""} :
          srv' = [srv EXCEPT !.status = "error", !.error = msg]
    /\ last' = Env
    /\ UNCHANGED << status, results, error, intervals, calls, used, hist >>

\* -------------------------------------------------------------- the hook
\* Another event fits the behaviour.
CanHappen == used.events < MaxEvents

Happened == [used EXCEPT !.events = @ + 1]

AddCall(h, c) == calls' = [calls EXCEPT ![h] = @ (+) SetToBag({c})]

EndCall(h, c) == calls' = [calls EXCEPT ![h] = @ (-) SetToBag({c})]

MoveCall(h, c, d) == calls' = [calls EXCEPT ![h] = (@ (-) SetToBag({c})) (+) SetToBag({d})]

\* The Run Analysis / Start Detection button: disabled while the hook's own
\* status is running.
RunButtonEnabled(h) == status[h].status # "running"

\* The Reset button: only the page renders it, and only when not idle.
ResetButtonShown(h) == h = "page" /\ status[h].status # "idle"

\* startAnalysis up to its await: clears error and results, sends the start
\* request.
startAnalysis(h) ==
    /\ RunButtonEnabled(h)
    /\ CanHappen
    /\ used' = Happened
    /\ AddCall(h, Call("startReq", 0, NoResponse))
    /\ error' = [error EXCEPT ![h] = Null]
    /\ results' = [results EXCEPT ![h] = 0]
    /\ hist' = [hist EXCEPT ![h] = [sinceReset |-> FALSE, accepted |-> 0,
                                   before |-> results[h]]]
    /\ last' = Op("startAnalysis", h, status[h].status)
    /\ UNCHANGED << srv, status, intervals >>

\* The page's Run Analysis button: startAnalysis with the configuration
\* written in the handler.
handleRunAnalysis ==
    /\ startAnalysis("page")
    /\ sent' = [sent EXCEPT !["page"] =
                  << [kernel |-> "rbf", nu |-> 5, gamma |-> "auto",
                      window_size |-> 400, n_clusters |-> 10, linkage |-> "ward",
                      variance_threshold |-> 10, correlation_threshold |-> 70] >>]

\* A runDetection that sends what the ModelConfiguration form holds.
runDetection_SendsForm ==
    /\ startAnalysis("detector")
    /\ sent' = [sent EXCEPT !["detector"] =
                  << [kernel |-> form.ocsvmConfig.kernel,
                      nu |-> form.ocsvmConfig.nu,
                      gamma |-> form.ocsvmConfig.gamma,
                      window_size |-> form.preprocessingConfig.windowSize,
                      n_clusters |-> form.clusteringConfig.numClusters,
                      linkage |-> form.clusteringConfig.linkage,
                      variance_threshold |-> form.multisourceConfig.varianceThreshold,
                      correlation_threshold |->
                          form.multisourceConfig.correlationThreshold] >>]

\* The AnomalyDetector's Start Detection button: the same, with its own
\* copy of the configuration.
runDetection ==
    /\ startAnalysis("detector")
    /\ sent' = [sent EXCEPT !["detector"] =
                  << [kernel |-> "rbf", nu |-> 5, gamma |-> "auto",
                      window_size |-> 400, n_clusters |-> 10, linkage |-> "ward",
                      variance_threshold |-> 10, correlation_threshold |-> 70] >>]

\* The start request reaches the server and is answered.
StartRequestServed(h, c) ==
    /\ c.pc = "startReq"
    /\ srv' = ServerStart.srv
    /\ MoveCall(h, c, Call("startResp", 0, ServerStart.resp))
    /\ last' = Op("startServed", h, srv.status)
    /\ UNCHANGED << status, results, error, intervals, used, hist >>

\* A request fails in transport: a non-OK response or a rejected fetch.
RequestFails(h, c) ==
    /\ c.pc \in {"startReq", "pollReq", "checkReq"}
    /\ CanHappen
    /\ used' = [Happened EXCEPT !.failures = @ + 1]
    /\ \E f \in TransportFailures :
          MoveCall(h, c, Call(CASE c.pc = "startReq" -> "startResp"
                                [] c.pc = "pollReq" -> "pollResp"
                                [] OTHER -> "checkResp", c.iv, f))
    /\ last' = Env
    /\ UNCHANGED << srv, status, results, error, intervals, hist >>

\* startAnalysis after its await, request accepted: the polling interval is
\* created.  The timer is named after the run whose start created it.
startAnalysisAccepted(h, c) ==
    /\ c.pc = "startResp"
    /\ c.resp.kind = "ok"
    /\ intervals' = [intervals EXCEPT ![h] = @ \cup {c.resp.body.run}]
    /\ EndCall(h, c)
    /\ hist' = [hist EXCEPT ![h].accepted = c.resp.body.run]
    /\ last' = Op("startAccepted", h, "")
    /\ UNCHANGED << srv, status, results, error, used >>

\* A startAnalysis that creates its polling interval whether or not the
\* start request was accepted.
startAnalysisRejected_StillPolls(h, c) ==
    /\ c.pc = "startResp"
    /\ c.resp.kind # "ok"
    /\ error' = [error EXCEPT ![h] = CatchMessage(c.resp)]
    /\ intervals' = [intervals EXCEPT ![h] = @ \cup {srv.run}]
    /\ EndCall(h, c)
    /\ last' = Op("startRejected", h, c.resp.kind)
    /\ UNCHANGED << srv, status, results, used, hist >>

\* startAnalysis after its await, request thrown: the catch block.
startAnalysisRejected(h, c) ==
    /\ c.pc = "startResp"
    /\ c.resp.kind # "ok"
    /\ error' = [error EXCEPT ![h] = CatchMessage(c.resp)]
    /\ EndCall(h, c)
    /\ last' = Op("startRejected", h, c.resp.kind)
    /\ UNCHANGED << srv, status, results, intervals, used, hist >>

\* A 1-second tick of an active interval: the callback starts and pollStatus
\* sends its status request.
IntervalTick(h, iv) ==
    /\ iv \in intervals[h]
    /\ CanHappen
    /\ used' = Happened
    /\ AddCall(h, Call("pollReq", iv, NoResponse))
    /\ last' = Env
    /\ UNCHANGED << srv, status, results, error, intervals, hist >>

\* A status request reaches the server and is answered.
StatusRequestServed(h, c) ==
    /\ c.pc \in {"pollReq", "checkReq"}
    /\ MoveCall(h, c, Call(IF c.pc = "pollReq" THEN "pollResp" ELSE "checkResp",
                           c.iv, ServerStatus))
    /\ last' = Env
    /\ UNCHANGED << srv, status, results, error, intervals, used, hist >>

\* A pollStatus whose catch block shows the failure in the error field.
pollStatus_FailureShown(h, c) ==
    LET data == c.resp.body
    IN  /\ c.pc = "pollResp"
        /\ IF c.resp.kind = "ok"
           THEN /\ status' = [status EXCEPT ![h] = data]
                /\ results' = IF data.status = "completed" /\ data.results # 0
                              THEN [results EXCEPT ![h] = data.results]
                              ELSE results
                /\ error' = IF ~(data.status = "completed" /\ data.results # 0)
                               /\ data.status = "error"
                            THEN [error EXCEPT ![h] =
                                    IF data.error # "" THEN data.error ELSE AnalysisFailed]
                            ELSE error
           ELSE /\ error' = [error EXCEPT ![h] = CatchMessage(c.resp)]
                /\ UNCHANGED << status, results >>
        /\ MoveCall(h, c, Call("checkReq", c.iv, NoResponse))
        /\ last' = Op(IF c.resp.kind = "ok" THEN "poll" ELSE "pollFailed", h, "")
        /\ UNCHANGED << srv, intervals, used, hist >>

\* pollStatus after its await, and the callback's second status request.
pollStatus(h, c) ==
    LET data == c.resp.body
    IN  /\ c.pc = "pollResp"
        /\ IF c.resp.kind = "ok"
           THEN /\ status' = [status EXCEPT ![h] = data]
                /\ results' = IF data.status = "completed" /\ data.results # 0
                              THEN [results EXCEPT ![h] = data.results]
                              ELSE results
                /\ error' = IF ~(data.status = "completed" /\ data.results # 0)
                               /\ data.status = "error"
                            THEN [error EXCEPT ![h] =
                                    IF data.error # "" THEN data.error ELSE AnalysisFailed]
                            ELSE error
           ELSE UNCHANGED << status, results, error >>
        /\ MoveCall(h, c, Call("checkReq", c.iv, NoResponse))
        /\ last' = Op(IF c.resp.kind = "ok" THEN "poll" ELSE "pollFailed", h, "")
        /\ UNCHANGED << srv, intervals, used, hist >>

\* A stop check that ends the polling for a completed run only.
IntervalCheck_OnlyCompleted(h, c) ==
    /\ c.pc = "checkResp"
    /\ intervals' = IF c.resp.kind = "ok" /\ c.resp.body.status = "completed"
                    THEN [intervals EXCEPT ![h] = @ \ {c.iv}]
                    ELSE intervals
    /\ EndCall(h, c)
    /\ last' = Op("check", h, "")
    /\ UNCHANGED << srv, status, results, error, used, hist >>

\* The callback after its second await: clears its interval when the run is
\* completed or failed; a thrown request ends the callback without clearing.
IntervalCheck(h, c) ==
    /\ c.pc = "checkResp"
    /\ intervals' = IF c.resp.kind = "ok" /\ c.resp.body.status \in {"completed", "error"}
                    THEN [intervals EXCEPT ![h] = @ \ {c.iv}]
                    ELSE intervals
    /\ EndCall(h, c)
    /\ last' = Op("check", h, "")
    /\ UNCHANGED << srv, status, results, error, used, hist >>

\* A resetAnalysis that leaves the error in place.
resetAnalysis_KeepsError(h) ==
    /\ ResetButtonShown(h)
    /\ used.resets < MaxResets
    /\ used' = [used EXCEPT !.resets = @ + 1]
    /\ status' = [status EXCEPT ![h] = IdleStatus]
    /\ results' = [results EXCEPT ![h] = 0]
    /\ hist' = [hist EXCEPT ![h].sinceReset = TRUE]
    /\ last' = Op("reset", h, status[h].status)
    /\ UNCHANGED << srv, intervals, calls, error >>

\* resetAnalysis: status back to idle, results and error back to null.
resetAnalysis(h) ==
    /\ ResetButtonShown(h)
    /\ used.resets < MaxResets
    /\ used' = [used EXCEPT !.resets = @ + 1]
    /\ status' = [status EXCEPT ![h] = IdleStatus]
    /\ results' = [results EXCEPT ![h] = 0]
    /\ error' = [error EXCEPT ![h] = Null]
    /\ hist' = [hist EXCEPT ![h].sinceReset = TRUE]
    /\ last' = Op("reset", h, status[h].status)
    /\ UNCHANGED << srv, intervals, calls >>

\* What a step of the hook, the server or the network leaves alone: the
\* form, the stored item, the step display, the pipeline's candidates and
\* the DataGenerator.
\* Only the two run handlers send a configuration.
Display == << form, saved, steps, pipe, gen >>

Aside == << sent, form, saved, steps, pipe, gen >>

Next ==
    \/ ServerAdvance /\ UNCHANGED Aside
    \/ ServerComplete /\ UNCHANGED Aside
    \/ ServerFail /\ UNCHANGED Aside
    \/ handleRunAnalysis /\ UNCHANGED Display
    \/ runDetection /\ UNCHANGED Display
    \/ \E h \in Hooks : \E c \in Outstanding(h) :
          StartRequestServed(h, c) /\ UNCHANGED Aside
    \/ \E h \in Hooks : \E c \in Outstanding(h) :
          RequestFails(h, c) /\ UNCHANGED Aside
    \/ \E h \in Hooks : \E c \in Outstanding(h) :
          startAnalysisAccepted(h, c) /\ UNCHANGED Aside
    \/ \E h \in Hooks : \E c \in Outstanding(h) :
          startAnalysisRejected(h, c) /\ UNCHANGED Aside
    \/ \E h \in Hooks : \E iv \in intervals[h] :
          IntervalTick(h, iv) /\ UNCHANGED Aside
    \/ \E h \in Hooks : \E c \in Outstanding(h) :
          StatusRequestServed(h, c) /\ UNCHANGED Aside
    \/ \E h \in Hooks : \E c \in Outstanding(h) :
          pollStatus(h, c) /\ UNCHANGED Aside
    \/ \E h \in Hooks : \E c \in Outstanding(h) :
          IntervalCheck(h, c) /\ UNCHANGED Aside
    \/ \E h \in Hooks : resetAnalysis(h) /\ UNCHANGED Aside

Spec == Init /\ [][Next]_vars

\* ------------------------------------------------- the timer keeps firing
\* The ids an interval can have: the runs the server can have accepted.
RunIds == 1 .. MaxEvents

\* A further tick of an active interval, beyond the counted ones, taken
\* once the callbacks of the hook's earlier ticks have ended.
IntervalTickAgain(h, iv) ==
    /\ iv \in intervals[h]
    /\ calls[h] = EmptyBag
    /\ AddCall(h, Call("pollReq", iv, NoResponse))
    /\ last' = Env
    /\ UNCHANGED << srv, status, results, error, intervals, used, hist >>

\* The step an outstanding call of the hook takes when the server answers
\* it or its continuation runs.
Continue(h) ==
    \E c \in Outstanding(h) :
        /\ \/ StartRequestServed(h, c)
           \/ startAnalysisAccepted(h, c)
           \/ startAnalysisRejected(h, c)
           \/ StatusRequestServed(h, c)
           \/ pollStatus(h, c)
           \/ IntervalCheck(h, c)
        /\ UNCHANGED Aside

\* The hook whose polling is followed to its end: the page's.
LiveHooks == {"page"}

\* The polling of one hook with every request answered by the server and
\* the timer firing without a count; the Run clicks are counted.
LiveNext ==
    \/ ServerAdvance /\ UNCHANGED Aside
    \/ ServerComplete /\ UNCHANGED Aside
    \/ ServerFail /\ UNCHANGED Aside
    \/ used.events < MaxRuns /\ handleRunAnalysis /\ UNCHANGED Display
    \/ \E h \in LiveHooks : Continue(h)
    \/ \E h \in LiveHooks : \E iv \in intervals[h] :
          IntervalTickAgain(h, iv) /\ UNCHANGED Aside
    \/ \E h \in LiveHooks : resetAnalysis(h) /\ UNCHANGED Aside

\* setInterval keeps firing while the interval is active, the server answers
\* every request that reaches it, and every continuation runs.
LiveSpec ==
    /\ Init
    /\ [][LiveNext]_vars
    /\ \A h \in LiveHooks : WF_vars(Continue(h))
    /\ \A h \in LiveHooks : \A iv \in RunIds :
          WF_vars(IntervalTickAgain(h, iv) /\ UNCHANGED Aside)

\* ------------------------------------------------------ a run has ended
\* The status of the server's first run once it is completed.
FirstRunDone == StatusBody("completed", 100, StepNames[MaxStages], 1, "", 1)

\* A hook has started the first run, shown it completed and stored its
\* results, and its stop check has cleared the interval.
AfterRun ==
    \E h0 \in Hooks :
        /\ srv = FirstRunDone
        /\ status = [h \in Hooks |-> IF h = h0 THEN FirstRunDone ELSE IdleStatus]
        /\ results = [h \in Hooks |-> IF h = h0 THEN 1 ELSE 0]
        /\ error = [h \in Hooks |-> Null]
        /\ intervals = [h \in Hooks |-> {}]
        /\ calls = [h \in Hooks |-> EmptyBag]
        /\ used = [events |-> 0, failures |-> 0, resets |-> 0, edits |-> 0]
        /\ hist = [h \in Hooks |->
                     [sinceReset |-> FALSE,
                      accepted |-> IF h = h0 THEN 1 ELSE 0, before |-> 0]]
        /\ last = Op("check", h0, "")
        /\ sent = [h \in Hooks |-> << >>]
        /\ form = InitialForm
        /\ saved = << >>
        /\ steps = << >>
        /\ pipe = NoRun
        /\ gen = InitialGen

\* The hooks and the server from there on.
RerunSpec == AfterRun /\ [][Next]_vars

\* ======================================================= AnomalyDetector
\* The strings the step display works on, letter by letter.
Letters(s) ==
    CASE s = "" -> << >>
      [] s = "Data Preprocessing" ->
        << "D", "a", "t", "a", " ", "P", "r", "e", "p", "r", "o", "c", "e",
           "s", "s", "i", "n", "g" >>
      [] s = "One-Class SVM Training" ->
        << "O", "n", "e", "-", "C", "l", "a", "s", "s", " ", "S", "V", "M",
           " ", "T", "r", "a", "i", "n", "i", "n", "g" >>
      [] s = "Anomaly Detection" ->
        << "A", "n", "o", "m", "a", "l", "y", " ", "D", "e", "t", "e", "c",
           "t", "i", "o", "n" >>
      [] s = "Hierarchical Clustering" ->
        << "H", "i", "e", "r", "a", "r", "c", "h", "i", "c", "a", "l", " ",
           "C", "l", "u", "s", "t", "e", "r", "i", "n", "g" >>
      [] s = "Multi-source Analysis" ->
        << "M", "u", "l", "t", "i", "-", "s", "o", "u", "r", "c", "e", " ",
           "A", "n", "a", "l", "y", "s", "i", "s" >>
      [] s = "Initializing" ->
        << "I", "n", "i", "t", "i", "a", "l", "i", "z", "i", "n", "g" >>

\* The labels a status can carry in current_step: the five step names, the
\* empty label of an idle status and a label that names no step.
Labels == {StepNames[k] : k \in 1 .. NumSteps} \cup {"", "Initializing"}

\* The progress values a status is drawn with.
ProgressValues == {0, 20, 40, 60, 80, 100}

\* String.prototype.split(" ")[0]: the letters before the first space.
FirstWord(w) ==
    IF \E i \in 1 .. Len(w) : w[i] = " "
    THEN SubSeq(w, 1, (CHOOSE i \in 1 .. Len(w) :
                          w[i] = " " /\ \A j \in 1 .. i - 1 : w[j] # " ") - 1)
    ELSE w

\* String.prototype.includes: part occurs somewhere in w.
Includes(w, part) ==
    \E i \in 0 .. Len(w) - Len(part) : SubSeq(w, i + 1, i + Len(part)) = part

\* Array.prototype.findIndex over the five steps, counted from 0 as in the
\* code; -1 when no step name includes the first word of the label.
currentStepIndex(label) ==
    LET hit == {k \in 0 .. NumSteps - 1 :
                  Includes(Letters(StepNames[k + 1]), FirstWord(Letters(label)))}
    IN  IF hit = {} THEN 0 - 1
        ELSE CHOOSE k \in hit : \A j \in hit : k <= j

\* A getDetectionSteps that marks the steps before the current one running
\* too.
getDetectionSteps_AllRunning(st) ==
    [k \in 1 .. NumSteps |->
        IF st.status = "running" /\ k - 1 <= currentStepIndex(st.current_step)
        THEN [step |-> StepNames[k], status |-> "running", progress |-> st.progress]
        ELSE IF st.status = "completed"
        THEN [step |-> StepNames[k], status |-> "completed", progress |-> 100]
        ELSE [step |-> StepNames[k], status |-> "pending", progress |-> 0]]

\* getDetectionSteps: the five steps, each pending with progress 0 unless the
\* status is running (steps before the current one completed, the current one
\* running with the status's progress) or completed (all completed).
getDetectionSteps(st) ==
    [k \in 1 .. NumSteps |->
        IF st.status = "running"
        THEN IF k - 1 < currentStepIndex(st.current_step)
             THEN [step |-> StepNames[k], status |-> "completed", progress |-> 100]
             ELSE IF k - 1 = currentStepIndex(st.current_step)
             THEN [step |-> StepNames[k], status |-> "running",
                   progress |-> st.progress]
             ELSE [step |-> StepNames[k], status |-> "pending", progress |-> 0]
        ELSE IF st.status = "completed"
        THEN [step |-> StepNames[k], status |-> "completed", progress |-> 100]
        ELSE [step |-> StepNames[k], status |-> "pending", progress |-> 0]]

\* The number in the header's "Processing step n of 5": the position of the
\* first step shown running, findIndex(...) + 1, which is 0 when there is none.
ProcessingStep(ds) ==
    LET running == {k \in 1 .. Len(ds) : ds[k].status = "running"}
    IN  IF running = {} THEN 0
        ELSE CHOOSE k \in running : \A j \in running : k <= j

\* What the render leaves alone.
HookState == << srv, results, error, intervals, calls, used, hist, last >>

\* The AnomalyDetector holds some status and has not rendered it yet.
StepsInit ==
    \E st \in {"idle", "running", "completed", "error"} :
    \E pr \in ProgressValues :
    \E label \in Labels :
        Begin([h \in Hooks |->
                 IF h = "detector" THEN StatusBody(st, pr, label, 0, "", 0)
                 ELSE IdleStatus])

\* The component renders: detectionSteps = getDetectionSteps().
Render ==
    /\ steps = << >>
    /\ steps' = getDetectionSteps(status["detector"])
    /\ UNCHANGED << status, sent, form, saved, pipe, gen >>
    /\ UNCHANGED HookState

StepsNext == Render

StepsSpec == StepsInit /\ [][StepsNext]_vars

\* ===================================================== ModelConfiguration
\* Number.parseInt and Number.parseFloat give NaN for a text that starts
\* with no number; JSON.stringify writes NaN as null.
NaN == 0 - 1

JsonNull == 0 - 2

\* The options of the six Select controls.
KernelOptions == {"rbf", "linear", "poly", "sigmoid"}

GammaOptions == {"auto", "scale", "0.001", "0.01", "0.1", "1"}

ConvergenceOptions == {"0.1", "0.01", "0.001", "0.0001"}

LinkageOptions == {"ward", "complete", "average", "single"}

DistanceOptions == {"euclidean", "manhattan", "cosine", "correlation"}

InterpolationOptions == {"linear", "cubic", "nearest", "polynomial"}

\* The positions a Slider is dragged to: its two ends and one step in from
\* the lower end.  The Slider reports no value outside [min, max].
SliderStops(min, max, step) == {min, min + step, max}

\* What is typed into a number Input, digit by digit: nothing, 5, 500.
TypedTexts == {<< >>, << 5 >>, << 5, 0, 0 >>}

\* Number.parseInt of typed digits.
RECURSIVE parseInt(_)
parseInt(text) ==
    IF text = << >> THEN NaN
    ELSE IF Len(text) = 1 THEN text[1]
    ELSE 10 * parseInt(SubSeq(text, 1, Len(text) - 1)) + text[Len(text)]

\* Number.parseFloat of a convergence option, in ten-thousandths.
parseFloat(text) ==
    CASE text = "0.1" -> 1000
      [] text = "0.01" -> 100
      [] text = "0.001" -> 10
      [] text = "0.0001" -> 1
      [] OTHER -> NaN

\* A control's change handler: set<Group>({ ...group, field: value }).
Edit(group, field, value) ==
    /\ used.edits < MaxEdits
    /\ used' = [used EXCEPT !.edits = @ + 1]
    /\ form' = [form EXCEPT ![group] = [@ EXCEPT ![field] = value]]
    /\ last' = Op("edit", "page", field)
    /\ UNCHANGED << srv, status, results, error, intervals, calls, hist >>
    /\ UNCHANGED << sent, saved, steps, pipe, gen >>

kernelSelect == \E v \in KernelOptions : Edit("ocsvmConfig", "kernel", v)

\* A nu slider whose lower end is 0.
nuSlider_FromZero ==
    \E v \in SliderStops(0, 50, 1) : Edit("ocsvmConfig", "nu", v)

nuSlider == \E v \in SliderStops(1, 50, 1) : Edit("ocsvmConfig", "nu", v)

gammaSelect == \E v \in GammaOptions : Edit("ocsvmConfig", "gamma", v)

convergenceSelect ==
    \E v \in ConvergenceOptions :
        Edit("ocsvmConfig", "convergenceAccuracy", parseFloat(v))

maxIterationsInput ==
    \E text \in TypedTexts : Edit("ocsvmConfig", "maxIterations", parseInt(text))

numClustersSlider ==
    \E v \in SliderStops(5, 25, 1) : Edit("clusteringConfig", "numClusters", v)

linkageSelect == \E v \in LinkageOptions : Edit("clusteringConfig", "linkage", v)

distanceSelect ==
    \E v \in DistanceOptions : Edit("clusteringConfig", "distanceMetric", v)

leafNodesSlider ==
    \E v \in SliderStops(2, 6, 1) : Edit("clusteringConfig", "leafNodes", v)

windowSizeSlider ==
    \E v \in SliderStops(80, 1200, 40) : Edit("preprocessingConfig", "windowSize", v)

samplingRateInput ==
    \E text \in TypedTexts :
        Edit("preprocessingConfig", "samplingRate", parseInt(text))

interpolationSelect ==
    \E v \in InterpolationOptions :
        Edit("preprocessingConfig", "interpolationMethod", v)

normalizationSwitch ==
    \E v \in BOOLEAN : Edit("preprocessingConfig", "normalization", v)

outlierRemovalSwitch ==
    \E v \in BOOLEAN : Edit("preprocessingConfig", "outlierRemoval", v)

frequencyAnalysisSwitch ==
    \E v \in BOOLEAN : Edit("multisourceConfig", "enableFrequencyAnalysis", v)

timeAlignmentSwitch ==
    \E v \in BOOLEAN : Edit("multisourceConfig", "timeAlignment", v)

varianceSlider ==
    \E v \in SliderStops(1, 100, 1) : Edit("multisourceConfig", "varianceThreshold", v)

correlationSlider ==
    \E v \in SliderStops(10, 100, 5) :
        Edit("multisourceConfig", "correlationThreshold", v)

\* A resetToDefaults that leaves the multi-source group as it is.
resetToDefaults_ThreeGroups ==
    /\ form' =
          [form EXCEPT
             !.ocsvmConfig =
                [kernel |-> "rbf", nu |-> 5, gamma |-> "auto",
                 convergenceAccuracy |-> 10, maxIterations |-> 1000],
             !.clusteringConfig =
                [numClusters |-> 10, linkage |-> "ward",
                 distanceMetric |-> "euclidean", leafNodes |-> 3],
             !.preprocessingConfig =
                [windowSize |-> 400, samplingRate |-> 2, normalization |-> TRUE,
                 outlierRemoval |-> TRUE, interpolationMethod |-> "linear"]]
    /\ last' = Op("resetToDefaults", "page", "")
    /\ UNCHANGED << srv, status, results, error, intervals, calls, used, hist >>
    /\ UNCHANGED << sent, saved, steps, pipe, gen >>

\* The Reset to Defaults button: the four setters, each with its literal.
resetToDefaults ==
    /\ form' =
          [ocsvmConfig |->
              [kernel |-> "rbf", nu |-> 5, gamma |-> "auto",
               convergenceAccuracy |-> 10, maxIterations |-> 1000],
           clusteringConfig |->
              [numClusters |-> 10, linkage |-> "ward",
               distanceMetric |-> "euclidean", leafNodes |-> 3],
           preprocessingConfig |->
              [windowSize |-> 400, samplingRate |-> 2, normalization |-> TRUE,
               outlierRemoval |-> TRUE, interpolationMethod |-> "linear"],
           multisourceConfig |->
              [enableFrequencyAnalysis |-> TRUE, varianceThreshold |-> 10,
               correlationThreshold |-> 70, timeAlignment |-> TRUE]]
    /\ last' = Op("resetToDefaults", "page", "")
    /\ UNCHANGED << srv, status, results, error, intervals, calls, used, hist >>
    /\ UNCHANGED << sent, saved, steps, pipe, gen >>

\* JSON.stringify of the config object: the four groups under their keys,
\* a NaN written as null.
JsonNumber(v) == IF v = NaN THEN JsonNull ELSE v

Stringify(f) ==
    [ocsvm |-> [f.ocsvmConfig EXCEPT !.maxIterations = JsonNumber(@)],
     clustering |-> f.clusteringConfig,
     preprocessing |-> [f.preprocessingConfig EXCEPT !.samplingRate = JsonNumber(@)],
     multisource |-> f.multisourceConfig]

\* The Save Configuration button: the item is written to localStorage, and
\* nothing else happens.
saveConfiguration ==
    /\ saved' = << Stringify(form) >>
    /\ last' = Op("saveConfiguration", "page", "")
    /\ UNCHANGED << srv, status, results, error, intervals, calls, used, hist >>
    /\ UNCHANGED << sent, form, steps, pipe, gen >>

\* The form, its two buttons and the two run buttons.
FormNext ==
    \/ kernelSelect
    \/ nuSlider
    \/ gammaSelect
    \/ convergenceSelect
    \/ maxIterationsInput
    \/ numClustersSlider
    \/ linkageSelect
    \/ distanceSelect
    \/ leafNodesSlider
    \/ windowSizeSlider
    \/ samplingRateInput
    \/ interpolationSelect
    \/ normalizationSwitch
    \/ outlierRemovalSwitch
    \/ frequencyAnalysisSwitch
    \/ timeAlignmentSwitch
    \/ varianceSlider
    \/ correlationSlider
    \/ resetToDefaults
    \/ saveConfiguration
    \/ handleRunAnalysis /\ UNCHANGED Display
    \/ runDetection /\ UNCHANGED Display

FormSpec == Init /\ [][FormNext]_vars

\* ============================================================ the pipeline
\* The stages of a run, as the specification gives them (sections 4.2 to
\* 4.5), under the default configuration, which is what the client sends.
\* A run classifies the windows of one series; leaks are the windows of its
\* true leak events.
Windows == 1 .. MaxWindows

\* The candidates whose verdict is true_anomaly.
Anomalies(p) == {c \in DOMAIN p.verdict : p.verdict[c] = "true_anomaly"}

\* What a stage of the pipeline leaves alone.
ClientState ==
    << srv, status, results, error, intervals, calls, used, hist, last,
       sent, form, saved, steps, gen >>

\* 4.2: the windows outside the boundary become candidates; with the
\* default configuration every leak window is among them.
BoundaryClassifier ==
    /\ pipe.stage = "none"
    /\ \E leaks \in SUBSET Windows :
       \E flagged \in SUBSET Windows :
          /\ leaks \subseteq flagged
          /\ pipe' = [stage |-> "flagged", leaks |-> leaks, flagged |-> flagged,
                      verdict |-> [c \in flagged |-> "true_anomaly"],
                      recall |-> << >>]
    /\ UNCHANGED ClientState

\* 4.3: every candidate of a cluster labelled operational is reclassified
\* false_anomaly; no true leak is in such a cluster.
ClusterFilter ==
    /\ pipe.stage = "flagged"
    /\ \E operational \in SUBSET (pipe.flagged \ pipe.leaks) :
          pipe' = [pipe EXCEPT
                     !.stage = "clustered",
                     !.verdict = [c \in pipe.flagged |->
                                    IF c \in operational THEN "false_anomaly"
                                    ELSE pipe.verdict[c]]]
    /\ UNCHANGED ClientState

\* A correlator that gives every candidate the verdict of its own rule,
\* whatever the cluster filter decided.
Correlator_Relabels ==
    /\ pipe.stage = "clustered"
    /\ \E pumpDriven \in SUBSET (pipe.flagged \ pipe.leaks) :
          pipe' = [pipe EXCEPT
                     !.stage = "correlated",
                     !.verdict = [c \in pipe.flagged |->
                                    IF c \in pumpDriven THEN "false_anomaly"
                                    ELSE "true_anomaly"]]
    /\ UNCHANGED ClientState

\* 4.4: a surviving candidate with idle frequency variance and a high
\* correlation is relabelled false_anomaly, the others are retained; no
\* true leak is relabelled.
Correlator ==
    /\ pipe.stage = "clustered"
    /\ \E pumpDriven \in SUBSET (Anomalies(pipe) \ pipe.leaks) :
          pipe' = [pipe EXCEPT
                     !.stage = "correlated",
                     !.verdict = [c \in pipe.flagged |->
                                    IF c \in pumpDriven THEN "false_anomaly"
                                    ELSE pipe.verdict[c]]]
    /\ UNCHANGED ClientState

\* 4.5: on success the run metrics are computed; recall is undefined for a
\* series with no leak event.
ComputeRunMetrics ==
    /\ pipe.stage = "correlated"
    /\ pipe' = [pipe EXCEPT
                  !.stage = "completed",
                  !.recall =
                     IF pipe.leaks = {} THEN << >>
                     ELSE << (Cardinality(Anomalies(pipe) \cap pipe.leaks) * 100)
                                \div Cardinality(pipe.leaks) >>]
    /\ UNCHANGED ClientState

\* ResultsVisualization, the Leak Detection Recall card: the text 100%.
LeakDetectionRecallCard(res) == << 100 >>

\* AnomalyDetector, Recall Rate: (results.recall * 100).toFixed(0), which is
\* NaN for a recall that is no number.
RecallRate(res) == IF res.recall = << >> THEN << NaN >> ELSE res.recall

PipelineNext ==
    \/ BoundaryClassifier
    \/ ClusterFilter
    \/ Correlator
    \/ ComputeRunMetrics

PipelineSpec == Init /\ [][PipelineNext]_vars

\* ========================================================= DataGenerator
\* The fallback messages of the component.
FailedToGenerate == "Failed to generate data"
FailedToDownload == "Failed to download data"

\* What the hooks, the form, the step display and the pipeline hold: left
\* alone by every step of the DataGenerator.
GenFrame ==
    << srv, status, results, error, intervals, calls, hist, sent, form, saved,
       steps, pipe >>

\* What a generate-data request can end with: a parsed body with or without
\* success, or an Error thrown by request, with its message.
GenerateOutcomes ==
    {[thrown |-> FALSE, success |-> b, message |-> ""] : b \in BOOLEAN}
    \cup {[thrown |-> TRUE, success |-> FALSE, message |-> RequestErrorMessage(f)] :
             f \in TransportFailures}

\* What a download can end with: the blob, or the Error of downloadData for
\* a non-OK response, or fetch's own.
DownloadOutcomes == {"", FailedToDownload, "Failed to fetch"}

\* The requests in flight without the one at position i.
Without(reqs, i) == SubSeq(reqs, 1, i - 1) \o SubSeq(reqs, i + 1, Len(reqs))

\* A generatePipelineData that leaves the error of the last failure in place.
generatePipelineData_KeepsError(g) ==
    [g EXCEPT !.isGenerating = TRUE,
              !.calls = @ + 1,
              !.requests = Append(@, [what |-> "generate", n |-> g.calls + 1,
                                      body |-> g.config])]

\* generatePipelineData up to its await: isGenerating true, error null, the
\* request sent with the five numbers of the config.
generatePipelineData(g) ==
    [g EXCEPT !.isGenerating = TRUE,
              !.error = Null,
              !.calls = @ + 1,
              !.requests = Append(@, [what |-> "generate", n |-> g.calls + 1,
                                      body |-> g.config])]

\* A continuation whose reset of isGenerating is skipped when the request
\* throws.
generatePipelineDataSettled_NoFinally(g, i, out) ==
    [g EXCEPT !.data = IF ~out.thrown /\ out.success THEN g.requests[i].n ELSE @,
              !.error = IF out.thrown THEN out.message
                        ELSE IF ~out.success THEN FailedToGenerate ELSE @,
              !.isGenerating = IF out.thrown THEN @ ELSE FALSE,
              !.requests = Without(@, i)]

\* generatePipelineData after its await: the data of a response with
\* success, the fallback error for one without, the Error's message when the
\* request threw; finally isGenerating false.
generatePipelineDataSettled(g, i, out) ==
    [g EXCEPT !.data = IF ~out.thrown /\ out.success THEN g.requests[i].n ELSE @,
              !.error = IF out.thrown THEN out.message
                        ELSE IF ~out.success THEN FailedToGenerate ELSE @,
              !.isGenerating = FALSE,
              !.requests = Without(@, i)]

\* useEffect(() => { generatePipelineData() }, []): the first call, on mount.
useEffect ==
    /\ ~gen.mounted
    /\ gen' = [generatePipelineData(gen) EXCEPT !.mounted = TRUE]
    /\ last' = Op("generate", "page", "mount")
    /\ UNCHANGED used
    /\ UNCHANGED GenFrame

\* The Generate Data button: disabled while isGenerating.
GenerateButtonEnabled == gen.mounted /\ ~gen.isGenerating

generateClick ==
    /\ GenerateButtonEnabled
    /\ gen.clicks < MaxClicks
    /\ gen' = [generatePipelineData(gen) EXCEPT !.clicks = @ + 1]
    /\ last' = Op("generate", "page", "click")
    /\ UNCHANGED used
    /\ UNCHANGED GenFrame

\* A generate-data request ends and the continuation runs.
generateSettles ==
    \E i \in 1 .. Len(gen.requests) : \E out \in GenerateOutcomes :
        /\ gen.requests[i].what = "generate"
        /\ gen' = generatePipelineDataSettled(gen, i, out)
        /\ last' = Op(IF ~out.thrown /\ out.success THEN "generated"
                      ELSE "generateFailed", "page",
                      IF out.thrown THEN "thrown" ELSE "")
        /\ UNCHANGED used
        /\ UNCHANGED GenFrame

\* The Download CSV button: disabled while data is empty.
DownloadButtonEnabled == gen.mounted /\ gen.data # 0

\* downloadData up to its await.
downloadData ==
    /\ DownloadButtonEnabled
    /\ gen.clicks < MaxClicks
    /\ gen' = [gen EXCEPT !.clicks = @ + 1,
                          !.requests = Append(@, [what |-> "download", n |-> 0,
                                                  body |-> InitialGenConfig])]
    /\ last' = Op("download", "page", "click")
    /\ UNCHANGED used
    /\ UNCHANGED GenFrame

\* downloadData after its await: the file is saved, or the catch block
\* stores the message.
downloadSettles ==
    \E i \in 1 .. Len(gen.requests) : \E msg \in DownloadOutcomes :
        /\ gen.requests[i].what = "download"
        /\ gen' = [gen EXCEPT !.error = IF msg = "" THEN @ ELSE msg,
                              !.requests = Without(@, i)]
        /\ last' = Op(IF msg = "" THEN "downloaded" ELSE "downloadFailed",
                      "page", "")
        /\ UNCHANGED used
        /\ UNCHANGED GenFrame

\* A number input of the config: setConfig with Number.parseInt of the text.
GenEdit(field, value) ==
    /\ gen.mounted
    /\ used.edits < MaxEdits
    /\ used' = [used EXCEPT !.edits = @ + 1]
    /\ gen' = [gen EXCEPT !.config = [@ EXCEPT ![field] = value]]
    /\ last' = Op("genEdit", "page", field)
    /\ UNCHANGED GenFrame

durationInput == \E t \in TypedTexts : GenEdit("duration", parseInt(t))

genSamplingRateInput == \E t \in TypedTexts : GenEdit("samplingRate", parseInt(t))

numPipelinesInput == \E t \in TypedTexts : GenEdit("numPipelines", parseInt(t))

leakEventsInput == \E t \in TypedTexts : GenEdit("leakEvents", parseInt(t))

operationalEventsInput ==
    \E t \in TypedTexts : GenEdit("operationalEvents", parseInt(t))

GenNext ==
    \/ useEffect
    \/ generateClick
    \/ generateSettles
    \/ downloadData
    \/ downloadSettles
    \/ durationInput
    \/ genSamplingRateInput
    \/ numPipelinesInput
    \/ leakEventsInput
    \/ operationalEventsInput

GenSpec == Init /\ [][GenNext]_vars

\* The effect runs once the component is mounted, and every generate-data
\* request ends: fetch resolves or rejects.
GenLiveSpec ==
    /\ Init
    /\ [][GenNext]_vars
    /\ WF_vars(useEffect)
    /\ WF_vars(generateSettles)

\* ================================================================ claims
Terminal == {"completed", "error"}

\* The hook's polling has ended: no interval is active and no call is
\* outstanding.
LoopEnded(h) == intervals[h] = {} /\ calls[h] = EmptyBag

\* Step predicates: the operation a step performs, read from its label.
Did(name, h) == last'.op = name /\ last'.hook = h

\* C1: after an accepted startAnalysis, once the server's run has ended and
\* the status requests have succeeded, the hook's status is completed or
\* error: when its polling loop has ended (interval cleared, nothing
\* outstanding) it does not show anything else.
C1_LoopEndsTerminal ==
    \A h \in Hooks :
        (/\ hist[h].accepted # 0
         /\ LoopEnded(h)
         /\ used.failures = 0
         /\ ~hist[h].sinceReset) => status[h].status \in Terminal

\* C2: a start request that reaches the server while a run is running is
\* rejected and starts no run, and the hook that sent it stores the
\* rejection in its error field and starts no polling loop.
C2_StartWhileRunningRejected ==
    [][\A h \in Hooks :
          /\ (Did("startServed", h) /\ srv.status = "running") =>
                /\ srv' = srv
                /\ \E c \in BagToSet(calls'[h]) :
                      /\ c.pc = "startResp"
                      /\ c.resp.kind = "http"
                      /\ c.resp.err = AlreadyRunning
                      /\ BagCardinality(calls'[h]) = BagCardinality(calls[h])
          /\ \A c \in Outstanding(h) :
                (/\ Did("startRejected", h)
                 /\ calls'[h] = calls[h] (-) SetToBag({c})
                 /\ c.resp.err = AlreadyRunning) =>
                    /\ error'[h] = AlreadyRunning
                    /\ intervals' = intervals
                    /\ srv' = srv]_vars

\* C2 witness: the detector's start was rejected while the run the page
\* started is running.
C2_Witness ==
    /\ last = Op("startRejected", "detector", "http")
    /\ error["detector"] = AlreadyRunning
    /\ srv.status = "running"
    /\ hist["page"].accepted = srv.run

\* C3: within one run the progress values the hook shows never decrease.
C3_ProgressMonotone ==
    [][\A h \in Hooks :
          (/\ Did("poll", h)
           /\ status[h].run # 0
           /\ status'[h].run = status[h].run) =>
              /\ status'[h].progress >= status[h].progress
              /\ status'[h].progress \in 0 .. 100]_vars

\* C4: once the hook shows completed or error, no status response of the
\* same run moves it back to running.
C4_TerminalStays ==
    [][\A h \in Hooks :
          (/\ Did("poll", h)
           /\ status[h].status \in Terminal
           /\ status'[h].run = status[h].run) =>
              status'[h].status # "running"]_vars

\* C5: results are non-null only while the hook's status is completed.
C5_ResultsOnlyWhenCompleted ==
    \A h \in Hooks : results[h] # 0 => status[h].status = "completed"

\* C6: whenever the hook's status is error, its error field is a message.
C6_ErrorCarriesMessage ==
    \A h \in Hooks : status[h].status = "error" => error[h] # Null

\* C7: a rejected start leaves the hook's status, progress and current_step
\* as they were (on the call and on the rejection), starts no polling loop,
\* and stores the message of the failure in the error field.
C7_RejectedStartFrame ==
    [][\A h \in Hooks :
          /\ Did("startAnalysis", h) => status' = status /\ intervals' = intervals
          /\ \A c \in Outstanding(h) :
                (/\ Did("startRejected", h)
                 /\ calls'[h] = calls[h] (-) SetToBag({c})) =>
                    /\ status' = status
                    /\ intervals' = intervals
                    /\ error'[h] # Null
                    /\ error'[h] =
                          CASE c.resp.kind = "http" /\ c.resp.err # "" -> c.resp.err
                            [] c.resp.kind = "http" /\ c.resp.err = "" -> "HTTP 500"
                            [] c.resp.kind = "nojson" -> "Network error"
                            [] c.resp.kind = "net" -> "Failed to fetch"]_vars

\* C7 witness: a start was rejected while the hook showed an ended run, and
\* the hook still shows that run, now with the rejection as its error.
C7_Witness ==
    \E h \in Hooks :
        /\ last.op = "startRejected" /\ last.hook = h
        /\ status[h].status \in Terminal
        /\ error[h] \in {AlreadyRunning, "HTTP 500", "Network error", "Failed to fetch"}

\* C8: the hook starts idle with progress 0, an empty current_step, null
\* results and null error, and resetAnalysis restores exactly that.
InitialHook(st, res, err) ==
    /\ st.status = "idle" /\ st.progress = 0 /\ st.current_step = ""
    /\ st.results = 0 /\ st.error = ""
    /\ res = 0
    /\ err = Null

C8_ResetRestoresInitial ==
    /\ \A h \in Hooks : InitialHook(status[h], results[h], error[h])
    /\ [][\A h \in Hooks :
             Did("reset", h) => InitialHook(status'[h], results'[h], error'[h])]_vars

\* C8 witness: resetAnalysis has just been called on a hook that showed an
\* error.
C8_Witness ==
    /\ last = Op("reset", "page", "error")
    /\ InitialHook(status["page"], results["page"], error["page"])

\* C9: after resetAnalysis, until startAnalysis is called again, the status
\* stays idle and the results stay null.
C9_ResetDiscardsInFlight ==
    \A h \in Hooks :
        hist[h].sinceReset => status[h].status = "idle" /\ results[h] = 0

\* C10: after an accepted startAnalysis the hook shows no completed status,
\* no progress 100 and no results of an earlier run.
C10_FreshRun ==
    \A h \in Hooks :
        hist[h].accepted # 0 =>
            /\ (status[h].status = "completed" \/ status[h].progress = 100)
                  => status[h].run >= hist[h].accepted
            /\ results[h] # 0 => results[h] >= hist[h].accepted

\* C11: for a running status whose current_step is the name of step k the
\* display shows the steps before k completed at 100, step k running at the
\* status's progress and the steps after k pending at 0; for a completed
\* status it shows all five steps completed at 100.
C11_StepsInPipelineOrder ==
    LET st == status["detector"]
    IN  steps # << >> =>
          /\ \A k \in 1 .. NumSteps :
                (st.status = "running" /\ st.current_step = StepNames[k]) =>
                   \A j \in 1 .. NumSteps :
                      /\ steps[j].step = StepNames[j]
                      /\ j < k => steps[j].status = "completed" /\ steps[j].progress = 100
                      /\ j = k => steps[j].status = "running"
                                     /\ steps[j].progress = st.progress
                      /\ j > k => steps[j].status = "pending" /\ steps[j].progress = 0
          /\ st.status = "completed" =>
                \A j \in 1 .. NumSteps :
                   steps[j].status = "completed" /\ steps[j].progress = 100

\* C11 witness: a running status at the fourth step has been rendered.
C11_Witness ==
    /\ steps # << >>
    /\ status["detector"].status = "running"
    /\ status["detector"].current_step = "Hierarchical Clustering"
    /\ status["detector"].progress = 60
    /\ steps[3].status = "completed" /\ steps[4].status = "running"
    /\ steps[5].status = "pending"

\* C12: the form starts with the documented defaults (kernel rbf, nu 0.05,
\* gamma auto, windowSize 400, numClusters 10, linkage ward, varianceThreshold
\* 0.1, correlationThreshold 0.7), and resetToDefaults, after any edits and
\* however often it is applied, leaves all four groups exactly as they
\* started.
DocumentedDefaults(f) ==
    /\ f.ocsvmConfig.kernel = "rbf"
    /\ f.ocsvmConfig.nu = 5
    /\ f.ocsvmConfig.gamma = "auto"
    /\ f.preprocessingConfig.windowSize = 400
    /\ f.clusteringConfig.numClusters = 10
    /\ f.clusteringConfig.linkage = "ward"
    /\ f.multisourceConfig.varianceThreshold = 10
    /\ f.multisourceConfig.correlationThreshold = 70

C12_ResetRestoresDefaults ==
    /\ DocumentedDefaults(form)
    /\ [][Did("resetToDefaults", "page") =>
             /\ form' = InitialForm
             /\ DocumentedDefaults(form')]_vars

\* C12 witness: the form was edited and saved, and Reset to Defaults has
\* just put it back: the stored item differs from the defaults, the form
\* does not.
C12_Witness ==
    /\ last.op = "resetToDefaults"
    /\ used.edits > 0
    /\ saved # << >>
    /\ saved # << Stringify(InitialForm) >>
    /\ form = InitialForm

\* C13: in every run the final anomaly set is a subset of the set the
\* boundary classifier flagged, and the cluster filter and the correlator
\* only take candidates from true_anomaly to false_anomaly: none comes
\* back and none is added.
C13_MonotonicRefinement ==
    /\ [](Anomalies(pipe) \subseteq pipe.flagged)
    /\ [][pipe.stage # "none" =>
             /\ pipe'.flagged = pipe.flagged
             /\ Anomalies(pipe') \subseteq Anomalies(pipe)
             /\ \A c \in pipe.flagged :
                   pipe.verdict[c] = "false_anomaly" =>
                      pipe'.verdict[c] = "false_anomaly"]_vars

\* C13 witness: a completed run in which the cluster filter excluded one
\* candidate and the correlator another.
C13_Witness ==
    /\ pipe.stage = "completed"
    /\ pipe.leaks # {}
    /\ Cardinality(pipe.flagged \ Anomalies(pipe)) >= 2
    /\ Anomalies(pipe) = pipe.leaks

\* C14: a completed run has recall 1.0 when the series has leak windows,
\* and the recall the client shows for it, on the Leak Detection Recall
\* card and as Recall Rate, is the recall of the run's results.
C14_RecallShownIsRunRecall ==
    pipe.stage = "completed" =>
        /\ pipe.leaks # {} => pipe.recall = << 100 >>
        /\ LeakDetectionRecallCard(pipe) = pipe.recall
        /\ RecallRate(pipe) = pipe.recall

\* C15: the polling interval is not cleared while the hook's own status
\* shows running: whenever a stop check clears its interval, the hook's
\* status is completed or error.  Stated for the runs in which no request
\* failed.
C15_ClearedOnlyWhenTerminal ==
    [][\A h \in Hooks :
          (/\ Did("check", h)
           /\ intervals'[h] # intervals[h]
           /\ used.failures = 0) =>
              /\ status'[h].status # "running"
              /\ status'[h].status \in Terminal]_vars

\* C16: once the server's run is completed or failed, the interval that
\* polls it is cleared and its callbacks have ended, unless a new run is
\* started meanwhile; and a loop whose interval is cleared and whose
\* callbacks have ended sends no further status request.
NoRequests(h, iv) == \A c \in Outstanding(h) : c.iv # iv

LoopOver(h, iv) == iv \notin intervals[h] /\ NoRequests(h, iv)

C16_PollingStops ==
    /\ \A h \in LiveHooks : \A iv \in RunIds :
          (iv \in intervals[h] /\ srv.status \in Terminal)
              ~> (LoopOver(h, iv) \/ srv.status = "running")
    /\ [][\A h \in LiveHooks : \A iv \in RunIds :
             LoopOver(h, iv) => NoRequests(h, iv)']_vars

\* C16 witness: the stop check has just cleared the interval of a run that
\* ended in error, and no callback of the hook is left.
C16_Witness ==
    \E h \in LiveHooks :
        /\ last = Op("check", h, "")
        /\ srv.status = "error"
        /\ hist[h].accepted = srv.run
        /\ LoopEnded(h)

\* C17: a hook has at most one polling interval active at any time.
C17_OneIntervalPerHook ==
    \A h \in Hooks : Cardinality(intervals[h]) <= 1

\* C18: no start request is sent while a run is running on the server: in
\* every state in which the server's run is running the Run Analysis and the
\* Start Detection button are disabled.
C18_NoStartWhileServerRuns ==
    /\ [](srv.status = "running" => \A h \in Hooks : ~RunButtonEnabled(h))
    /\ [][\A h \in Hooks :
             Did("startAnalysis", h) => srv.status # "running"]_vars

\* C19: whatever the form controls are set to, nu is within [0.01, 0.5],
\* numClusters within [5, 25], and kernel, linkage and distanceMetric are
\* each one of the four values the specification lists.
C19_FormStatesValid ==
    /\ form.ocsvmConfig.nu \in 1 .. 50
    /\ form.clusteringConfig.numClusters \in 5 .. 25
    /\ form.clusteringConfig.numClusters >= 2
    /\ form.ocsvmConfig.kernel \in {"linear", "rbf", "poly", "sigmoid"}
    /\ form.clusteringConfig.linkage \in {"ward", "complete", "average", "single"}
    /\ form.clusteringConfig.distanceMetric \in
          {"euclidean", "manhattan", "cosine", "correlation"}

\* C19 witness: a slider has been dragged to an end of its range.
C19_Witness ==
    /\ last.op = "edit"
    /\ \/ form.ocsvmConfig.nu \in {1, 50}
       \/ form.clusteringConfig.numClusters \in {5, 25}

\* C20: whatever the form holds and whether or not it was saved, the
\* configuration a run button sends is kernel rbf, nu 0.05, gamma auto,
\* window_size 400, n_clusters 10, linkage ward, variance_threshold 0.1,
\* correlation_threshold 0.7.
C20_SentConfigIsFixed ==
    \A h \in Hooks :
        sent[h] # << >> =>
            sent[h] = << [kernel |-> "rbf", nu |-> 5, gamma |-> "auto",
                          window_size |-> 400, n_clusters |-> 10,
                          linkage |-> "ward", variance_threshold |-> 10,
                          correlation_threshold |-> 70] >>

\* C20 witness: both run buttons were clicked after the form had been
\* changed and saved.
C20_Witness ==
    /\ form # InitialForm
    /\ saved = << Stringify(form) >>
    /\ last.op = "startAnalysis"
    /\ \A h \in Hooks : sent[h] # << >>

\* C21: a status request that fails (rejected fetch or non-OK response)
\* leaves the hook's status, results and error as they were and clears no
\* interval: after a failed poll the callback goes on to its stop check, and
\* a stop check whose request failed changes nothing either.
C21_FailedPollFrame ==
    [][\A h \in Hooks :
          /\ Did("pollFailed", h) =>
                /\ status' = status /\ results' = results /\ error' = error
                /\ intervals' = intervals
                /\ \E d \in BagToSet(calls'[h]) : d.pc = "checkReq"
          /\ \A c \in Outstanding(h) :
                (/\ Did("check", h)
                 /\ calls'[h] = calls[h] (-) SetToBag({c})
                 /\ c.pc = "checkResp"
                 /\ c.resp.kind # "ok") =>
                    /\ status' = status /\ results' = results /\ error' = error
                    /\ intervals' = intervals]_vars

\* C21 witness: a poll has just failed while the run is running, and the
\* hook's interval is still active.
C21_Witness ==
    \E h \in Hooks :
        /\ last.op = "pollFailed" /\ last.hook = h
        /\ srv.status = "running"
        /\ hist[h].accepted = srv.run
        /\ srv.run \in intervals[h]

\* C22: when a startAnalysis call ends rejected, the hook's results are the
\* results it held when the call was made.
C22_RejectedStartKeepsResults ==
    [][\A h \in Hooks :
          Did("startRejected", h) => results'[h] = hist[h].before]_vars

\* The steps of a hook that write its state.
HookStep(h) ==
    \/ Did("startAnalysis", h) \/ Did("startAccepted", h)
    \/ Did("startRejected", h) \/ Did("poll", h) \/ Did("pollFailed", h)
    \/ Did("check", h) \/ Did("reset", h)

\* C23: a step of one hook leaves the other hook's status, results and error
\* unchanged, and no hook shows a run that the other hook started.
C23_InstancesIndependent ==
    /\ [][\A h \in Hooks : \A g \in Hooks \ {h} :
             HookStep(h) =>
                 /\ status'[g] = status[g]
                 /\ results'[g] = results[g]
                 /\ error'[g] = error[g]]_vars
    /\ [](\A h \in Hooks : \A g \in Hooks \ {h} :
             status[h].run # 0 => hist[g].accepted # status[h].run)

\* C24: whenever the status is running, the rendered steps hold exactly one
\* running step, whatever label current_step carries (the empty label
\* included), and the header's step number is not 0.
C24_OneStepRunning ==
    (steps # << >> /\ status["detector"].status = "running") =>
        /\ Cardinality({k \in 1 .. NumSteps : steps[k].status = "running"}) = 1
        /\ ProcessingStep(steps) # 0

\* The generate-data requests in flight.
GenerateInFlight ==
    {i \in 1 .. Len(gen.requests) : gen.requests[i].what = "generate"}

\* C25: isGenerating is true exactly while a generate-data request is in
\* flight; every generatePipelineData call is followed by isGenerating false
\* again, whether the response has success, has none or the request throws;
\* and no second request is sent while one is in flight.
C25_GeneratingWhileInFlight ==
    /\ [](gen.isGenerating <=> GenerateInFlight # {})
    /\ [](Cardinality(GenerateInFlight) <= 1)
    /\ [][Did("generate", "page") =>
             ~gen.isGenerating /\ GenerateInFlight = {}]_vars
    /\ [][(Did("generated", "page") \/ Did("generateFailed", "page")) =>
             ~gen'.isGenerating]_vars
    /\ \A n \in 1 .. MaxClicks + 1 :
          (gen.isGenerating /\ gen.calls = n) ~> ~gen.isGenerating

\* C25 witness: the request of a call made with the Generate button has
\* thrown, and isGenerating is false again.
C25_Witness ==
    /\ last = Op("generateFailed", "page", "thrown")
    /\ gen.calls >= 2
    /\ ~gen.isGenerating
    /\ GenerateInFlight = {}

\* C26: a generatePipelineData that fails (the request throws or the
\* response has no success) leaves data as it was and sets an error, and
\* every generatePipelineData call sets the error to null and then sends its
\* request.
C26_FailureKeepsData ==
    [][/\ Did("generateFailed", "page") =>
             gen'.data = gen.data /\ gen'.error # Null
       /\ Did("generate", "page") =>
             /\ gen'.error = Null
             /\ Len(gen'.requests) = Len(gen.requests) + 1
             /\ gen'.requests[Len(gen'.requests)].what = "generate"]_vars

\* C26 witness: data of an earlier call is displayed, a later call has
\* failed on a response without success, and the error is set.
C26_Witness ==
    /\ last = Op("generateFailed", "page", "")
    /\ gen.data # 0
    /\ gen.data < gen.calls
    /\ gen.error = FailedToGenerate

====
